---- MODULE Spec2Model ----
(***************************************************************************)
(* Edge-adaptive LSB-matching steganography (package advanced).            *)
(*                                                                         *)
(* A run of the model takes one carrier file and one payload, encodes the  *)
(* payload into the carrier (AdvancedEncode) and decodes an image file     *)
(* (AdvancedDecode): the encoder's output, or the input file itself.       *)
(*                                                                         *)
(* Pixel arrays are functions over 0..n-1, indexed as in the source        *)
(* (i = y*w + x).  Byte slices (payload, header, frame) are sequences.     *)
(***************************************************************************)
EXTENDS Integers, Sequences, FiniteSets, TLC

VARIABLES
    phase,        \* "idle", "encoded" (AdvancedEncode returned), "decoded"
    tie,          \* how this build's sort.Slice orders equal-cost elements
    fault,        \* I/O fault of the run: "none", "badCarrier", "badPayload"
    carrierFile,  \* the carrier image file (8-bit non-premultiplied pixels)
    payload,      \* the bytes read from the data reader
    coin,         \* the random source of this encode call
    img,          \* encoder: raster returned by getImageAsRGBA
    encOrder,     \* encoder: pixel positions after sort.Slice
    stego,        \* encoder: result_img
    encErr,       \* encoder: returned error kind, "none" on success
    encOut,       \* encoder: image file written to result (w = 0: nothing)
    decImg,       \* decoder: raster returned by getImageAsRGBA
    decOrder,     \* decoder: pixel positions after sort.Slice
    decLen,       \* decoder: messageLength as 8 big-endian bytes
    decErr,       \* decoder: "none", an error kind, or "panic"
    decOut,       \* decoder: bytes written to result
    unitIn,       \* a direct call of LSBMatchingEmbed: pixel, bit, random draw
    unitOut,      \* the pixel value that call returned
    costMap,      \* a direct call of CalculateCosts: costMap.costs
    metrics,      \* AnalyzeSecurity(img, stego): what each metric computed
    calls,        \* concurrent calls: the locals of each call, by call id
    chain,        \* encodes fed their predecessor's output: the history
    direct        \* a direct call of GetOptimalChanges: img, message, result

vars == <<phase, tie, fault, carrierFile, payload, coin, img, encOrder, stego,
          encErr, encOut, decImg, decOrder, decLen, decErr, decOut, unitIn,
          unitOut, costMap, metrics, calls, chain, direct>>

(***************************************************************************)
(* Program constants and bounds of the model.                              *)
(***************************************************************************)
headerSize == 8

MinDim == 8        \* smallest side of the square-ish carriers
MaxDim == 9        \* largest side
MaxLen == 3        \* longest payload, in bytes
MaxCoinPeriod == 2 \* longest run of equal coin outcomes in a periodic source

Byte == 0..255

\* A slice whose elements are computed once, when it is filled, and not at
\* each later read: comparing the function with itself makes the model
\* checker enumerate it.  Array(f) = f.
Array(f) == IF f = f THEN f ELSE f

(***************************************************************************)
(* Rasters.  A raster is [w, h, R, G, B, A] with one function 0..w*h-1 ->  *)
(* Byte per channel.  In a file the colour channels are not premultiplied  *)
(* by alpha (PNG); in memory (image.RGBA) they are.                        *)
(***************************************************************************)
NPix(r) == r.w * r.h

NoRaster == [w |-> 0, h |-> 0, R |-> <<>>, G |-> <<>>, B |-> <<>>, A |-> <<>>]

\* draw.Draw(rgba, bounds, img, bounds.Min, draw.Src) on one channel of one
\* pixel: c*0x101*a/0xff >> 8.  The identity when a = 255.
LoadChannel(c, a) == ((c * 257 * a) \div 255) \div 256

getImageAsRGBA(file) ==
    [w |-> file.w, h |-> file.h,
     R |-> Array([i \in 0..NPix(file)-1 |-> LoadChannel(file.R[i], file.A[i])]),
     G |-> Array([i \in 0..NPix(file)-1 |-> LoadChannel(file.G[i], file.A[i])]),
     B |-> Array([i \in 0..NPix(file)-1 |-> LoadChannel(file.B[i], file.A[i])]),
     A |-> file.A]

\* png.Encode on one channel of one pixel of an *image.RGBA: opaque pixels
\* are stored as they are, transparent ones as zero, the others divided by
\* alpha: (c*0x101*0xffff / (a*0x101)) >> 8, truncated to 8 bits.
PngChannel(c, a) ==
    IF a = 255 THEN c
    ELSE IF a = 0 THEN 0
    ELSE (((c * 65535) \div a) \div 256) % 256

pngEncode(m) ==
    [w |-> m.w, h |-> m.h,
     R |-> Array([i \in 0..NPix(m)-1 |-> PngChannel(m.R[i], m.A[i])]),
     G |-> Array([i \in 0..NPix(m)-1 |-> PngChannel(m.G[i], m.A[i])]),
     B |-> Array([i \in 0..NPix(m)-1 |-> PngChannel(m.B[i], m.A[i])]),
     A |-> m.A]

(***************************************************************************)
(* cost.go.  A float64 cost 1/(sqrt(gx^2+gy^2)+epsilon) is represented by  *)
(* an integer on a scale with the same order: gx and gy are integers of    *)
(* magnitude at most 4*255, distinct values of gx^2+gy^2 give distinct     *)
(* float64 costs, and a larger magnitude gives a smaller cost.  The scale  *)
(* is MaxMagSq + 1 - (gx^2+gy^2), at least 1; math.MaxFloat64 lies above   *)
(* every such cost.                                                        *)
(***************************************************************************)
sobelX == << <<-1, 0, 1>>, <<-2, 0, 2>>, <<-1, 0, 1>> >>
sobelY == << <<-1, -2, -1>>, <<0, 0, 0>>, <<1, 2, 1>> >>

\* sobelX[i+1][j+1] and sobelY[i+1][j+1] of the inner loops, by the loops'
\* own i and j in -1..1 (a tuple's first index is 1).
weightX == [i \in -1..1 |-> [j \in -1..1 |-> sobelX[i + 2][j + 2]]]
weightY == [i \in -1..1 |-> [j \in -1..1 |-> sobelY[i + 2][j + 2]]]

MaxMagSq == 2 * (4 * 255) * (4 * 255)
MaxFloat64 == MaxMagSq + 2
PosInf == MaxFloat64 + 1

\* epsilon, in millionths.  With epsilon = 1e-6 a zero gradient costs 1e6
\* and every non-zero gradient (magnitude at least 1) costs less than 1;
\* with epsilon = 0 a zero gradient would cost +Inf.
epsilonMillionths == 1

\* getChannelValue reading the payload channel whatever channel is asked.
getChannelValueRed(m, x, y, channel) == m.R[y * m.w + x]

getChannelValue(m, x, y, channel) ==
    CASE channel = 0 -> m.R[y * m.w + x]
      [] channel = 1 -> m.G[y * m.w + x]
      [] channel = 2 -> m.B[y * m.w + x]
      [] OTHER       -> m.G[y * m.w + x]

\* The cost with the magnitude taken from gx twice (gy forgotten).  The
\* kernels are indexed [x offset][y offset], so gx responds to horizontal
\* edges and gy to vertical ones.
GradientCostGxTwice(m, x, y, channel) ==
    LET px(i, j) == getChannelValue(m, x + i, y + j, channel)
        tx(i, j) == px(i, j) * weightX[i][j]
        gx == tx(-1, -1) + tx(-1, 0) + tx(-1, 1) + tx(0, -1) + tx(0, 0)
              + tx(0, 1) + tx(1, -1) + tx(1, 0) + tx(1, 1)
    IN  MaxMagSq + 1 - (gx * gx + gx * gx)

\* The cost of interior pixel (x, y): lines 60-81 of cost.go.
GradientCost(m, x, y, channel) ==
    LET term(i, j) ==
            LET pixel == getChannelValue(m, x + i, y + j, channel)
            IN  <<pixel * weightX[i][j], pixel * weightY[i][j]>>
        terms == <<term(-1, -1), term(-1, 0), term(-1, 1),
                   term(0, -1), term(0, 0), term(0, 1),
                   term(1, -1), term(1, 0), term(1, 1)>>
        gx == terms[1][1] + terms[2][1] + terms[3][1] + terms[4][1]
              + terms[5][1] + terms[6][1] + terms[7][1] + terms[8][1]
              + terms[9][1]
        gy == terms[1][2] + terms[2][2] + terms[3][2] + terms[4][2]
              + terms[5][2] + terms[6][2] + terms[7][2] + terms[8][2]
              + terms[9][2]
    IN  IF gx * gx + gy * gy = 0 /\ epsilonMillionths = 0 THEN PosInf
        ELSE MaxMagSq + 1 - (gx * gx + gy * gy)

IsBorder(w, h, x, y) == x = 0 \/ x = w - 1 \/ y = 0 \/ y = h - 1

\* The cost map without the loop over the left and right columns: their
\* costs keep the zero value of the fresh slice.
CalculateCostsRowsOnly(m, channel) ==
    Array([i \in 0..NPix(m)-1 |->
            LET x == i % m.w
                y == i \div m.w
            IN  IF y = 0 \/ y = m.h - 1 THEN MaxFloat64
                ELSE IF x = 0 \/ x = m.w - 1 THEN 0
                ELSE GradientCost(m, x, y, channel)])

\* costMap.costs, row-major.
CalculateCosts(m, channel) ==
    Array([i \in 0..NPix(m)-1 |->
            LET x == i % m.w
                y == i \div m.w
            IN  IF IsBorder(m.w, m.h, x, y) THEN MaxFloat64
                ELSE GradientCost(m, x, y, channel)])

(***************************************************************************)
(* sort.Slice(allPixelCosts, less) with less comparing costs only.  The    *)
(* sort is not stable: where costs are equal the resulting order is        *)
(* whatever the library's algorithm gives for that input.  It is a         *)
(* function of the input, so one build orders equal costs the same way in  *)
(* every call; which way is left open and drawn from TiePolicies.          *)
(***************************************************************************)
TiePolicies == {"ascending", "descending"}

TieBefore(t, i, j) ==
    CASE t = "ascending"  -> i < j
      [] t = "descending" -> i > j

\* The distinct values of a cost slice, cheapest first.
RECURSIVE CostLevels(_)
CostLevels(S) ==
    IF S = {} THEN <<>>
    ELSE LET lowest == CHOOSE v \in S : \A u \in S : v <= u
         IN  <<lowest>> \o CostLevels(S \ {lowest})

\* The positions of byIndex whose cost is levels[1], then those whose cost
\* is levels[2], and so on.
RECURSIVE GroupByLevel(_, _, _)
GroupByLevel(costs, byIndex, levels) ==
    IF levels = <<>> THEN <<>>
    ELSE LET atLevel(i) == costs[i] = Head(levels)
         IN  SelectSeq(byIndex, atLevel)
                 \o GroupByLevel(costs, byIndex, Tail(levels))

\* The positions of allPixelCosts as handed to the sort.  less below is a
\* strict total order on positions, so the sorted result is the same for
\* every listing of them; they are listed cost level by cost level, equal
\* costs in the order t gives them, which leaves the sort one pass to make.
AllPositions(costs, n, t) ==
    LET byIndex == [k \in 1..n |-> IF t = "ascending" THEN k - 1 ELSE n - k]
    IN  GroupByLevel(costs, byIndex,
                     CostLevels({costs[i] : i \in 0..(n - 1)}))

\* The sort with the comparison turned round: costliest first.
SortByCostDescending(costs, n, t) ==
    LET less(i, j) == \/ costs[i] > costs[j]
                      \/ costs[i] = costs[j] /\ TieBefore(t, i, j)
    IN  SortSeq(AllPositions(costs, n, t), less)

SortByCost(costs, n, t) ==
    LET less(i, j) == \/ costs[i] < costs[j]
                      \/ costs[i] = costs[j] /\ TieBefore(t, i, j)
    IN  SortSeq(AllPositions(costs, n, t), less)

(***************************************************************************)
(* lsb_matching.go                                                         *)
(***************************************************************************)
\* One draw of crypto/rand for the bit at bitIndex: "add" (r[0]&1 = 1),
\* "sub" (r[0]&1 = 0) or "fail" (rand.Read returned an error).
CoinKinds == {"add", "sub", "fail", "periodic"}

Coins ==
    {[kind |-> k, period |-> 1] : k \in {"add", "sub", "fail"}}
    \cup {[kind |-> "periodic", period |-> p] : p \in {1, MaxCoinPeriod}}

CoinAt(c, bitIndex) ==
    IF c.kind = "periodic"
    THEN (IF (bitIndex \div c.period) % 2 = 0 THEN "add" ELSE "sub")
    ELSE c.kind

\* LSBMatchingEmbed without the boundary case at 255: the byte wraps to 0.
LSBMatchingEmbedWrap255(pixel, bit, draw) ==
    IF pixel % 2 = bit THEN pixel
    ELSE IF draw = "sub"
         THEN (IF pixel = 0 THEN (pixel + 1) % 256 ELSE (pixel + 255) % 256)
    ELSE (pixel + 1) % 256

\* LSBMatchingEmbed without the boundary case at 0: the byte wraps to 255.
LSBMatchingEmbedWrap0(pixel, bit, draw) ==
    IF pixel % 2 = bit THEN pixel
    ELSE IF draw = "sub" THEN (pixel + 255) % 256
    ELSE (IF pixel = 255 THEN (pixel + 255) % 256 ELSE (pixel + 1) % 256)

\* LSBMatchingEmbed giving up when rand.Read fails: the pixel is returned as
\* it came.
LSBMatchingEmbedFailKeeps(pixel, bit, draw) ==
    IF pixel % 2 = bit THEN pixel
    ELSE IF draw = "fail" THEN pixel
    ELSE IF draw = "add"
         THEN (IF pixel = 255 THEN (pixel + 255) % 256 ELSE (pixel + 1) % 256)
    ELSE (IF pixel = 0 THEN (pixel + 1) % 256 ELSE (pixel + 255) % 256)

\* The returned pixel value (the returned cost is discarded by the caller).
\* pixel is a byte: ++ and -- are taken modulo 256.
LSBMatchingEmbed(pixel, bit, draw) ==
    IF pixel % 2 = bit THEN pixel
    ELSE IF draw = "fail"
         THEN (IF pixel = 255 THEN (pixel + 255) % 256 ELSE (pixel + 1) % 256)
    ELSE IF draw = "add"
         THEN (IF pixel = 255 THEN (pixel + 255) % 256 ELSE (pixel + 1) % 256)
    ELSE (IF pixel = 0 THEN (pixel + 1) % 256 ELSE (pixel + 255) % 256)

\* (message[byteIndex] >> (7 - bitOffset)) & 1, message a sequence of bytes.
Pow2(k) == IF k = 0 THEN 1 ELSE IF k = 1 THEN 2 ELSE IF k = 2 THEN 4
           ELSE IF k = 3 THEN 8 ELSE IF k = 4 THEN 16 ELSE IF k = 5 THEN 32
           ELSE IF k = 6 THEN 64 ELSE 128

\* The bit taken least significant first: message[byteIndex] >> bitOffset.
BitToEmbedLsbFirst(message, bitIndex) ==
    (message[(bitIndex \div 8) + 1] \div Pow2(bitIndex % 8)) % 2

BitToEmbed(message, bitIndex) ==
    LET byteIndex == bitIndex \div 8
        bitOffset == bitIndex % 8
    IN  (message[byteIndex + 1] \div Pow2(7 - bitOffset)) % 2

\* The embedding loop taking raster position bitIndex instead of
\* allPixelCosts[bitIndex].position.
EmbedLoopRasterOrder(pix, message, order, c) ==
    Array([i \in DOMAIN pix |->
            IF i < Len(message) * 8
            THEN LSBMatchingEmbed(pix[i], BitToEmbed(message, i), CoinAt(c, i))
            ELSE pix[i]])

\* The writes of iterations lo..hi of the embedding loop
\* (lsb_matching.go:81-93), as a function from the positions written to the
\* values written.  Iteration bitIndex writes result[pixelPos] from
\* img[pixelPos] (the input slice, never the copy); where two iterations
\* write the same position the later one wins (f @@ g takes f's value).
RECURSIVE EmbedWrites(_, _, _, _, _, _)
EmbedWrites(pix, message, order, c, lo, hi) ==
    IF lo = hi
    THEN LET bitIndex == lo
             pixelPos == order[bitIndex + 1]
         IN  pixelPos :> LSBMatchingEmbed(pix[pixelPos],
                                          BitToEmbed(message, bitIndex),
                                          CoinAt(c, bitIndex))
    ELSE LET mid == (lo + hi) \div 2
         IN  EmbedWrites(pix, message, order, c, mid + 1, hi)
                 @@ EmbedWrites(pix, message, order, c, lo, mid)

\* The embedding loop leaving only the written positions as they should
\* be: every position it does not select gets its LSB cleared.
EmbedLoopClearsRest(pix, message, order, c) ==
    IF Len(message) = 0 THEN pix
    ELSE Array(EmbedWrites(pix, message, order, c, 0, Len(message) * 8 - 1)
                   @@ [i \in DOMAIN pix |-> pix[i] - (pix[i] % 2)])

\* The embedding loop: the copy of img with the writes of all iterations.
EmbedLoop(pix, message, order, c) ==
    IF Len(message) = 0 THEN pix
    ELSE Array(EmbedWrites(pix, message, order, c, 0, Len(message) * 8 - 1)
                   @@ pix)

\* GetOptimalChanges(img, message, costs), given the order its sort returns.
GetOptimalChanges(pix, n, message, order, c) ==
    IF Len(message) * 8 > n THEN pix
    ELSE EmbedLoop(pix, message, order, c)

(***************************************************************************)
(* advanced.go: framing                                                    *)
(***************************************************************************)
\* binary.BigEndian.PutUint64(header, uint64(v)) for 0 <= v < 2^31.
PutUint64(v) ==
    [k \in 1..headerSize |->
        CASE k = 8 -> v % 256
          [] k = 7 -> (v \div 256) % 256
          [] k = 6 -> (v \div 65536) % 256
          [] k = 5 -> (v \div 16777216) % 256
          [] OTHER -> 0]

FullData(dataBytes) == PutUint64(Len(dataBytes)) \o dataBytes

\* The capacity check with >= for >.
CapacityExceededOffByOne(dataBytes, capacity) ==
    Len(FullData(dataBytes)) * 8 >= capacity

\* Step 4 of AdvancedEncode: the capacity check fails.
CapacityExceeded(dataBytes, capacity) == Len(FullData(dataBytes)) * 8 > capacity

\* The channel of CalculateCosts(img, 1) in both AdvancedEncode and
\* AdvancedDecode.
costChannel == 1

\* result_img built as a grey image: the modified value in Red and Green.
ResultImageGrey(m, modifiedPixels) ==
    [m EXCEPT !.R = modifiedPixels, !.G = modifiedPixels]

\* Step 7 of AdvancedEncode: result_img from the carrier raster and the
\* modified Red values.
ResultImage(m, modifiedPixels) == [m EXCEPT !.R = modifiedPixels]

(***************************************************************************)
(* advanced.go: the decoder's arithmetic.  A uint64 is a sequence of 8     *)
(* bytes, most significant first (the header as binary.BigEndian reads     *)
(* it); operations wrap modulo 2^64 as Go's do.                            *)
(***************************************************************************)
\* pixels[allPixelCosts[k].pos] & 1
ReadBit(pixels, order, k) == pixels[order[k + 1]] % 2

\* Steps 7 and 10: count bytes from the bits at firstBit.., each byte
\* assembled most significant bit first (1 << uint(7-j)).
BytesFromBits(pixels, order, firstBit, count) ==
    [i \in 1..count |->
        LET b(j) == ReadBit(pixels, order, firstBit + (i - 1) * 8 + j) * Pow2(7 - j)
        IN  b(0) + b(1) + b(2) + b(3) + b(4) + b(5) + b(6) + b(7)]

U64IsZero(b) == \A k \in 1..8 : b[k] = 0

\* uint64(b * 8): the three top bits are shifted out.
U64Mul8(b) ==
    [k \in 1..8 |-> ((b[k] * 8) % 256) + (IF k < 8 THEN b[k + 1] \div 32 ELSE 0)]

\* b + carry into byte k and upwards, modulo 2^64.
RECURSIVE U64AddCarry(_, _, _)
U64AddCarry(b, k, carry) ==
    IF k = 0 THEN b
    ELSE U64AddCarry([b EXCEPT ![k] = (b[k] + carry) % 256], k - 1,
                     (b[k] + carry) \div 256)

U64Add(b, v) == U64AddCarry(b, 8, v)

\* The low 24 bits, and b > c for an int 0 <= c < 2^24.
U64Low24(b) == b[6] * 65536 + b[7] * 256 + b[8]
U64GtInt(b, c) == (\E k \in 1..5 : b[k] # 0) \/ U64Low24(b) > c

\* Step 8: totalBits = uint64(headerSize*8) + uint64(messageLength*8).
TotalDataBits(messageLength) == U64Mul8(messageLength)
TotalBits(messageLength) == U64Add(TotalDataBits(messageLength), headerSize * 8)

\* The condition of the if at step 8.
HeaderRejected(messageLength, capacity) ==
    U64IsZero(messageLength) \/ U64GtInt(TotalBits(messageLength), capacity)

\* make([]byte, length) panics (makeslice: len out of range) for a uint64
\* length beyond the allocator's limit of 2^48 bytes (64-bit platforms).
MakeslicePanics(length) == length[1] # 0 \/ length[2] # 0

\* Steps 9 and 10 allocate dataBits (totalDataBits bytes) and data
\* (messageLength bytes).
BodyAllocationPanics(messageLength) ==
    \/ MakeslicePanics(TotalDataBits(messageLength))
    \/ MakeslicePanics(messageLength)

\* The image written before the checks are made.
EncodeWrittenEarly(err, file) == file

\* What a call has written to its result writer when it returns err: every
\* error return comes before png.Encode / result.Write, so the image (the
\* bytes) at hand is written only when no error was returned.
EncodeWritten(err, file) == IF err = "none" THEN file ELSE NoRaster
DecodeWritten(err, data) == IF err = "none" THEN data ELSE <<>>

(***************************************************************************)
(* Inputs of a run.                                                        *)
(***************************************************************************)
\* Carrier sizes: every w x h with sides MinDim..MaxDim, one image with no
\* interior pixel and one too small to hold a header.
Dims == {<<w, h>> : w \in MinDim..MaxDim, h \in MinDim..MaxDim}
        \cup {<<2, 36>>, <<4, 4>>}

\* Carriers whose interior alone holds a whole frame: (11-2)*(10-2) = 72
\* interior pixels take the frames of payloads of 0 and 1 bytes.
LargeDims == {<<11, 10>>}

GreenPatterns == {"flat", "step", "diag"}
RedPatterns == {"zero", "max", "mix"}
AlphaPatterns == {"opaque", "clear", "mixed"}

GreenAt(g, x, y, w) ==
    CASE g = "flat" -> 128
      [] g = "step" -> (IF x < w \div 2 THEN 0 ELSE 255)
      [] g = "diag" -> ((x + y) * 37) % 256

RedAt(r, x, y) ==
    CASE r = "zero" -> 0
      [] r = "max"  -> 255
      [] r = "mix"  -> (x * y + x) % 256
      [] r = "checker" -> 100 + ((x + y) % 2)

AlphaAt(a, x, y) ==
    CASE a = "opaque" -> 255
      [] a = "clear"  -> 0
      [] a = "mixed"  -> (IF (x + y) % 3 = 0 THEN 255
                          ELSE IF (x + y) % 3 = 1 THEN 128 ELSE 0)
      [] a = "faint"  -> 3

PatternFile(d, g, r, a) ==
    LET w == d[1]
        h == d[2]
    IN  [w |-> w, h |-> h,
         R |-> Array([i \in 0..w*h-1 |-> RedAt(r, i % w, i \div w)]),
         G |-> Array([i \in 0..w*h-1 |-> GreenAt(g, i % w, i \div w, w)]),
         B |-> Array([i \in 0..w*h-1 |-> ((i % w) - (i \div w)) % 256]),
         A |-> Array([i \in 0..w*h-1 |-> AlphaAt(a, i % w, i \div w)])]

\* Length headers a foreign (not encoder-made) image may carry: 0, 1, 2,
\* 2^32, 2^61, 2^61 + 1, 2^63 and 2^64 - 1.
HeaderSamples ==
    { <<0, 0, 0, 0, 0, 0, 0, 0>>, <<0, 0, 0, 0, 0, 0, 0, 1>>,
      <<0, 0, 0, 0, 0, 0, 0, 2>>, <<0, 0, 0, 1, 0, 0, 0, 0>>,
      <<32, 0, 0, 0, 0, 0, 0, 0>>, <<32, 0, 0, 0, 0, 0, 0, 1>>,
      <<128, 0, 0, 0, 0, 0, 0, 0>>,
      <<255, 255, 255, 255, 255, 255, 255, 255>> }

\* An opaque image whose Red LSBs, read in cost order, spell the header hdr
\* followed by zero bits.
ForgedFile(d, g, hdr, t) ==
    LET base == PatternFile(d, g, "zero", "opaque")
        n == d[1] * d[2]
        order == SortByCost(CalculateCosts(getImageAsRGBA(base), costChannel), n, t)
        red == IF n < headerSize * 8 THEN base.R
               ELSE [i \in 0..n-1 |->
                       IF \E k \in 0..headerSize*8-1 :
                            order[k + 1] = i /\ BitToEmbed(hdr, k) = 1
                       THEN 1 ELSE 0]
    IN  [base EXCEPT !.R = red]

PayloadSeeds == {165, 255}
PayloadOf(len, seed) == [i \in 1..len |-> (seed + (i - 1) * 90) % 256]
Payloads == {PayloadOf(len, seed) : len \in 0..MaxLen, seed \in PayloadSeeds}

Faults == {"none", "badCarrier", "badPayload"}

(***************************************************************************)
(* The state machine.                                                      *)
(***************************************************************************)
Idle(f, p, t, flt) ==
    /\ phase = "idle"
    /\ tie = t
    /\ fault = flt
    /\ carrierFile = f
    /\ payload = p
    /\ coin = [kind |-> "add", period |-> 1]
    /\ img = NoRaster
    /\ encOrder = <<>>
    /\ stego = NoRaster
    /\ encErr = "none"
    /\ encOut = NoRaster
    /\ decImg = NoRaster
    /\ decOrder = <<>>
    /\ decLen = <<>>
    /\ decErr = "none"
    /\ decOut = <<>>
    /\ unitOut = 0
    /\ costMap = <<>>
    /\ metrics = <<>>

\* Opaque carriers with every Red pattern; carriers with transparent pixels.
Carriers(d) ==
    {PatternFile(d, g, r, "opaque") : g \in GreenPatterns, r \in RedPatterns}
    \cup {PatternFile(d, g, "mix", a) :
             g \in GreenPatterns, a \in AlphaPatterns \ {"opaque"}}

Init ==
    /\ unitIn = [pixel |-> 0, bit |-> 0, draw |-> "add"]
    /\ calls = <<>>
    /\ chain = <<>>
    /\ direct = <<>>
    /\ \/ \E d \in Dims, p \in Payloads, t \in TiePolicies :
             \E f \in Carriers(d) : Idle(f, p, t, "none")
       \/ \E d \in Dims, g \in GreenPatterns, hdr \in HeaderSamples,
             t \in TiePolicies :
             Idle(ForgedFile(d, g, hdr, t), <<>>, t, "none")
       \/ \E d \in Dims, p \in Payloads, t \in TiePolicies,
             flt \in Faults \ {"none"} :
             Idle(PatternFile(d, "diag", "mix", "opaque"), p, t, flt)
       \/ \E d \in LargeDims, g \in {"step", "diag"}, len \in 0..MaxLen,
             t \in TiePolicies :
             Idle(PatternFile(d, g, "mix", "opaque"), PayloadOf(len, 165), t,
                  "none")

\* AdvancedEncode(carrier, data, result) with the random source c.
AdvancedEncode(c) ==
    /\ phase = "idle"
    /\ phase' = "encoded"
    /\ coin' = c
    /\ IF fault = "badCarrier"
       THEN /\ encErr' = "CarrierDecodeError"
            /\ encOut' = EncodeWritten("CarrierDecodeError", NoRaster)
            /\ UNCHANGED <<img, encOrder, stego>>
       ELSE LET m == getImageAsRGBA(carrierFile)
                capacity == NPix(m)
            IN  /\ img' = m
                /\ IF fault = "badPayload"
                   THEN /\ encErr' = "PayloadReadError"
                        /\ encOut' = EncodeWritten("PayloadReadError", pngEncode(m))
                        /\ UNCHANGED <<encOrder, stego>>
                   ELSE IF CapacityExceeded(payload, capacity)
                   THEN /\ encErr' = "CapacityExceeded"
                        /\ encOut' = EncodeWritten("CapacityExceeded", pngEncode(m))
                        /\ UNCHANGED <<encOrder, stego>>
                   ELSE LET costs == CalculateCosts(m, costChannel)
                            order == SortByCost(costs, capacity, tie)
                            modifiedPixels ==
                                GetOptimalChanges(m.R, capacity, FullData(payload),
                                                  order, c)
                            result_img == ResultImage(m, modifiedPixels)
                        IN  /\ encOrder' = order
                            /\ stego' = result_img
                            /\ encErr' = "none"
                            /\ encOut' = EncodeWritten("none", pngEncode(result_img))
    /\ UNCHANGED <<tie, fault, carrierFile, payload, decImg, decOrder, decLen,
                   decErr, decOut, unitIn, unitOut, costMap, metrics, calls,
                   chain, direct>>

\* The file handed to AdvancedDecode: what the encoder wrote, or the input
\* file itself when no encoder ran.
DecodeInput == IF phase = "encoded" THEN encOut ELSE carrierFile

\* AdvancedDecode(carrier, result)
AdvancedDecode ==
    /\ \/ phase = "idle"
       \/ phase = "encoded" /\ encErr = "none"
    /\ phase' = "decoded"
    /\ IF fault = "badCarrier"
       THEN /\ decErr' = "CarrierDecodeError"
            /\ decOut' = DecodeWritten("CarrierDecodeError", <<>>)
            /\ UNCHANGED <<decImg, decOrder, decLen>>
       ELSE LET m == getImageAsRGBA(DecodeInput)
                capacity == NPix(m)
                costs == CalculateCosts(m, costChannel)
                order == SortByCost(costs, capacity, tie)
                pixels == m.R
            IN  /\ decImg' = m
                /\ decOrder' = order
                /\ IF capacity < headerSize * 8
                   THEN /\ decErr' = "TooSmall"
                        /\ decOut' = DecodeWritten("TooSmall", <<>>)
                        /\ decLen' = <<>>
                   ELSE LET messageLength ==
                                BytesFromBits(pixels, order, 0, headerSize)
                        IN  /\ decLen' = messageLength
                            /\ IF HeaderRejected(messageLength, capacity)
                               THEN /\ decErr' = "CorruptHeader"
                                    /\ decOut' = DecodeWritten("CorruptHeader", <<>>)
                               ELSE IF BodyAllocationPanics(messageLength)
                               THEN /\ decErr' = "panic"
                                    /\ decOut' = DecodeWritten("panic", <<>>)
                               ELSE /\ decErr' = "none"
                                    /\ decOut' = DecodeWritten("none",
                                         BytesFromBits(pixels, order, headerSize * 8,
                                                       U64Low24(messageLength)))
    /\ UNCHANGED <<tie, fault, carrierFile, payload, coin, img, encOrder, stego,
                   encErr, encOut, unitIn, unitOut, costMap, metrics, calls,
                   chain, direct>>

Next ==
    \/ \E c \in Coins : AdvancedEncode(c)
    \/ AdvancedDecode

Spec == Init /\ [][Next]_vars

(***************************************************************************)
(* LSBMatchingEmbed called on its own, for every pixel value, bit and       *)
(* outcome of the random draw.                                             *)
(***************************************************************************)
Draws == {"add", "sub", "fail"}

InitLSB ==
    /\ Idle(PatternFile(<<4, 4>>, "flat", "zero", "opaque"), <<>>, "ascending",
            "none")
    /\ unitIn \in [pixel : Byte, bit : {0, 1}, draw : Draws]
    /\ calls = <<>>
    /\ chain = <<>>
    /\ direct = <<>>

CallLSBMatchingEmbed ==
    /\ phase = "idle"
    /\ phase' = "returned"
    /\ unitOut' = LSBMatchingEmbed(unitIn.pixel, unitIn.bit, unitIn.draw)
    /\ UNCHANGED <<tie, fault, carrierFile, payload, coin, img, encOrder, stego,
                   encErr, encOut, decImg, decOrder, decLen, decErr, decOut,
                   unitIn, costMap, metrics, calls,
                   chain, direct>>

NextLSB == CallLSBMatchingEmbed

SpecLSB == InitLSB /\ [][NextLSB]_vars

(***************************************************************************)
(* CalculateCosts called on its own (TestCostMapCalculation), on rasters    *)
(* of every width and height from 1 up, thin ones included.                 *)
(***************************************************************************)
MaxCostWidth == 10
MaxCostHeight == 5

InitCost ==
    /\ unitIn = [pixel |-> 0, bit |-> 0, draw |-> "add"]
    /\ calls = <<>>
    /\ chain = <<>>
    /\ direct = <<>>
    /\ \E w \in 1..MaxCostWidth, h \in 1..MaxCostHeight, g \in GreenPatterns :
          Idle(PatternFile(<<w, h>>, g, "zero", "opaque"), <<>>, "ascending",
               "none")

CallCalculateCosts ==
    /\ phase = "idle"
    /\ phase' = "costed"
    /\ img' = getImageAsRGBA(carrierFile)
    /\ costMap' = CalculateCosts(img', costChannel)
    /\ UNCHANGED <<tie, fault, carrierFile, payload, coin, encOrder, stego,
                   encErr, encOut, decImg, decOrder, decLen, decErr, decOut,
                   unitIn, unitOut, metrics, calls,
                   chain, direct>>

NextCost == CallCalculateCosts

SpecCost == InitCost /\ [][NextCost]_vars

(***************************************************************************)
(* Two calls running at once.  Each call is an AdvancedEncode or an        *)
(* AdvancedDecode on inputs of its own; its locals (img, costs, the sorted  *)
(* positions, pixels, the result) live in its own frame, calls[id].  A step *)
(* of the model is one stretch of one call between two of these            *)
(* assignments; the steps of the two calls interleave in every order.      *)
(* The only thing the calls share is crypto/rand: which bytes a call draws *)
(* depends on the interleaving, so every embedding step may see any draws. *)
(***************************************************************************)
CallIds == {1, 2}
ConcDims == {<<9, 8>>}
ConcPayloads == {<<>>, <<165>>, <<165, 255>>}
ConcHeaders == {<<0, 0, 0, 0, 0, 0, 0, 0>>, <<0, 0, 0, 0, 0, 0, 0, 1>>}
ConcCoins == {c \in Coins : c.kind \in {"add", "sub"}}

\* The frame of a call before its first statement.
NewCall(op, file, data) ==
    [op |-> op, file |-> file, data |-> data, pc |-> "start", img |-> NoRaster,
     costs |-> <<>>, order |-> <<>>, pixels |-> <<>>, err |-> "none",
     out |-> <<>>]

CallInputs(t) ==
    {NewCall("encode", PatternFile(d, g, "mix", "opaque"), p) :
        d \in ConcDims, g \in {"step", "diag"}, p \in ConcPayloads}
    \cup {NewCall("decode", ForgedFile(d, g, hdr, t), <<>>) :
        d \in ConcDims, g \in {"step", "diag"}, hdr \in ConcHeaders}

\* The cost map kept in one package-level variable: a call finds the map
\* the other call left there.
CostsOfShared(cs, id) ==
    IF \E j \in CallIds : j # id /\ cs[j].costs # <<>>
    THEN cs[CHOOSE j \in CallIds : j # id /\ cs[j].costs # <<>>].costs
    ELSE cs[id].costs

\* The cost map a call sorts by: its own local costs.
CostsOf(cs, id) == cs[id].costs

\* What AdvancedDecode does with the pixels once they are sorted:
\* advanced.go:126-174.
DecodeResult(pixels, order, capacity) ==
    IF capacity < headerSize * 8 THEN [err |-> "TooSmall", out |-> <<>>]
    ELSE LET messageLength == BytesFromBits(pixels, order, 0, headerSize)
         IN  IF HeaderRejected(messageLength, capacity)
             THEN [err |-> "CorruptHeader", out |-> <<>>]
             ELSE IF BodyAllocationPanics(messageLength)
             THEN [err |-> "panic", out |-> <<>>]
             ELSE [err |-> "none",
                   out |-> BytesFromBits(pixels, order, headerSize * 8,
                                         U64Low24(messageLength))]

InitConc ==
    /\ unitIn = [pixel |-> 0, bit |-> 0, draw |-> "add"]
    /\ \E t \in TiePolicies :
          /\ Idle(PatternFile(<<4, 4>>, "flat", "zero", "opaque"), <<>>, t,
                  "none")
          /\ calls \in [CallIds -> CallInputs(t)]
    /\ chain = <<>>
    /\ direct = <<>>

ConcRest == <<phase, tie, fault, carrierFile, payload, coin, img, encOrder,
              stego, encErr, encOut, decImg, decOrder, decLen, decErr, decOut,
              unitIn, unitOut, costMap, metrics, chain, direct>>

\* getImageAsRGBA, then CalculateCosts: the same in both operations.
CallLoad(id) ==
    /\ calls[id].pc = "start"
    /\ calls' = [calls EXCEPT ![id].img = getImageAsRGBA(calls[id].file),
                              ![id].pc = "loaded"]
    /\ UNCHANGED ConcRest

CallCosts(id) ==
    /\ calls[id].pc = "loaded"
    /\ calls' = [calls EXCEPT
                    ![id].costs = CalculateCosts(calls[id].img, costChannel),
                    ![id].pc = "costed"]
    /\ UNCHANGED ConcRest

\* AdvancedEncode: the frame, the capacity check, the pixel slice.
EncodeFrame(id) ==
    /\ calls[id].op = "encode"
    /\ calls[id].pc = "costed"
    /\ IF CapacityExceeded(calls[id].data, NPix(calls[id].img))
       THEN calls' = [calls EXCEPT ![id].err = "CapacityExceeded",
                                   ![id].pc = "done"]
       ELSE calls' = [calls EXCEPT ![id].pixels = calls[id].img.R,
                                   ![id].pc = "framed"]
    /\ UNCHANGED ConcRest

\* AdvancedEncode: GetOptimalChanges (sort and embedding loop) with the
\* draws c.
EncodeEmbed(id, c) ==
    /\ calls[id].op = "encode"
    /\ calls[id].pc = "framed"
    /\ LET n == NPix(calls[id].img)
           order == SortByCost(CostsOf(calls, id), n, tie)
       IN  calls' = [calls EXCEPT
                       ![id].order = order,
                       ![id].pixels =
                           GetOptimalChanges(calls[id].pixels, n,
                                             FullData(calls[id].data), order, c),
                       ![id].pc = "embedded"]
    /\ UNCHANGED ConcRest

\* AdvancedEncode: result_img and png.Encode.
EncodeWrite(id) ==
    /\ calls[id].op = "encode"
    /\ calls[id].pc = "embedded"
    /\ calls' = [calls EXCEPT
                    ![id].out = pngEncode(ResultImage(calls[id].img,
                                                      calls[id].pixels)),
                    ![id].pc = "done"]
    /\ UNCHANGED ConcRest

\* AdvancedDecode: the pixel slice and the sort.
DecodeSort(id) ==
    /\ calls[id].op = "decode"
    /\ calls[id].pc = "costed"
    /\ calls' = [calls EXCEPT
                    ![id].pixels = calls[id].img.R,
                    ![id].order = SortByCost(CostsOf(calls, id),
                                             NPix(calls[id].img), tie),
                    ![id].pc = "sorted"]
    /\ UNCHANGED ConcRest

\* AdvancedDecode: header, checks, body, write.
DecodeExtract(id) ==
    /\ calls[id].op = "decode"
    /\ calls[id].pc = "sorted"
    /\ LET res == DecodeResult(calls[id].pixels, calls[id].order,
                               NPix(calls[id].img))
       IN  calls' = [calls EXCEPT ![id].err = res.err,
                                  ![id].out = DecodeWritten(res.err, res.out),
                                  ![id].pc = "done"]
    /\ UNCHANGED ConcRest

NextConc ==
    \E id \in CallIds :
        \/ CallLoad(id)
        \/ CallCosts(id)
        \/ EncodeFrame(id)
        \/ \E c \in ConcCoins : EncodeEmbed(id, c)
        \/ EncodeWrite(id)
        \/ DecodeSort(id)
        \/ DecodeExtract(id)

SpecConc == InitConc /\ [][NextConc]_vars

(***************************************************************************)
(* GetOptimalChanges called directly (SpecDirect), on a slice, a message   *)
(* and a cost map of the caller's choice: nothing checks the capacity      *)
(* before it.  direct holds the contents of the argument slice before and  *)
(* after the call, the other arguments and the returned slice.             *)
(***************************************************************************)
DirectSizes == {4, 8, 16}
DirectPixels(n) == {[i \in 0..(n - 1) |-> (i * 37 + s) % 256] : s \in {0, 128, 255}}
DirectCosts(n) ==
    {[i \in 0..(n - 1) |-> (i * 5) % 3], [i \in 0..(n - 1) |-> n - i]}

\* len(img) of a slice held as a function on 0..len-1.
SliceLen(pix) == Cardinality(DOMAIN pix)

\* GetOptimalChanges writing into its argument: result := img, no copy.
GetOptimalChangesCallNoCopy(pix, message, costs, t, c) ==
    LET result == GetOptimalChanges(pix, SliceLen(pix), message,
                                    SortByCost(costs, SliceLen(pix), t), c)
    IN  [img |-> result, result |-> result]

\* One call GetOptimalChanges(img, message, costs): the argument slice
\* after the call and the slice returned.  The code writes result only.
GetOptimalChangesCall(pix, message, costs, t, c) ==
    [img |-> pix,
     result |-> GetOptimalChanges(pix, SliceLen(pix), message,
                                  SortByCost(costs, SliceLen(pix), t), c)]

InitDirect ==
    /\ unitIn = [pixel |-> 0, bit |-> 0, draw |-> "add"]
    /\ calls = <<>>
    /\ chain = <<>>
    /\ \E t \in TiePolicies :
          Idle(PatternFile(<<4, 4>>, "flat", "zero", "opaque"), <<>>, t, "none")
    /\ \E n \in DirectSizes, message \in Payloads :
          \E pix \in DirectPixels(n), costs \in DirectCosts(n) :
              direct = [pc |-> "start", before |-> pix, img |-> pix,
                        message |-> message, costs |-> costs, result |-> <<>>]

CallGetOptimalChanges(c) ==
    /\ direct.pc = "start"
    /\ LET ret == GetOptimalChangesCall(direct.img, direct.message,
                                        direct.costs, tie, c)
       IN  direct' = [direct EXCEPT !.pc = "returned", !.img = ret.img,
                                    !.result = ret.result]
    /\ UNCHANGED <<phase, tie, fault, carrierFile, payload, coin, img, encOrder,
                   stego, encErr, encOut, decImg, decOrder, decLen, decErr,
                   decOut, unitIn, unitOut, costMap, metrics, calls, chain>>

NextDirect == \E c \in Coins : CallGetOptimalChanges(c)

SpecDirect == InitDirect /\ [][NextDirect]_vars

(***************************************************************************)
(* Successive encodes (SpecChain).  The caller hands the image file one    *)
(* AdvancedEncode wrote to the next AdvancedEncode as its carrier, with a  *)
(* payload of its choice, and may decode any of the files.  chain keeps    *)
(* the first carrier and, for every encode whose output was handed on,     *)
(* its payload and its result_img.                                         *)
(***************************************************************************)
MaxChain == 2      \* encodes in a row

ChainDims == {<<9, 9>>}
ChainPayloads == {<<>>, <<165>>, <<90>>, <<165, 255>>}
ChainCoins == {c \in Coins : c.kind \in {"add", "sub", "fail"}}
ChainCarriers ==
    {PatternFile(d, g, "mix", a) :
        d \in ChainDims, g \in {"step", "diag"}, a \in {"opaque", "mixed"}}
    \cup {PatternFile(d, "diag", "max", "faint") : d \in ChainDims}

InitChain ==
    /\ unitIn = [pixel |-> 0, bit |-> 0, draw |-> "add"]
    /\ calls = <<>>
    /\ direct = <<>>
    /\ \E f \in ChainCarriers, p \in ChainPayloads, t \in TiePolicies :
          /\ Idle(f, p, t, "none")
          /\ chain = [first |-> f, history |-> <<>>]

\* The output of the encode that just succeeded becomes the carrier of a
\* new call with payload D; the new call starts with fresh locals.
FeedBack(D) ==
    /\ phase = "encoded"
    /\ encErr = "none"
    /\ Len(chain.history) < MaxChain - 1
    /\ chain' = [chain EXCEPT
                    !.history = Append(@, [data |-> payload, stego |-> stego])]
    /\ phase' = "idle"
    /\ carrierFile' = encOut
    /\ payload' = D
    /\ img' = NoRaster
    /\ encOrder' = <<>>
    /\ stego' = NoRaster
    /\ encOut' = NoRaster
    /\ UNCHANGED <<tie, fault, coin, encErr, decImg, decOrder, decLen, decErr,
                   decOut, unitIn, unitOut, costMap, metrics, calls, direct>>

NextChain ==
    \/ \E c \in ChainCoins : AdvancedEncode(c)
    \/ \E D \in ChainPayloads : FeedBack(D)
    \/ AdvancedDecode

SpecChain == InitChain /\ [][NextChain]_vars

(***************************************************************************)
(* security/security_tests.go: the steganalysis metrics.  Every metric     *)
(* reads a pixel as img.At(x, y).RGBA() and shifts the 16-bit channel      *)
(* right by 8.  The metrics are float64 in the source; here a result is     *)
(* the exact quotient the source computes, kept as numerator and           *)
(* denominator, or the symbolic value the source returns.                  *)
(***************************************************************************)
\* c >> 8 for the 16-bit channel c of color.RGBA.RGBA(): c = v | v << 8.
Shr8(v) == (v * 257) \div 256

\* f[lo] + ... + f[hi], summed by halves.
RECURSIVE SumRange(_, _, _)
SumRange(f, lo, hi) ==
    IF lo > hi THEN 0
    ELSE IF lo = hi THEN f[lo]
    ELSE LET mid == (lo + hi) \div 2
         IN  SumRange(f, lo, mid) + SumRange(f, mid + 1, hi)

\* CalculateChiSquare with expected = count: the halving forgotten.
CalculateChiSquareNoHalf(m) ==
    LET count == NPix(m)
        hist == [b \in {0, 1} |->
                    Cardinality({i \in 0..count-1 : Shr8(m.R[i]) % 2 = b})]
    IN  IF count = 0 THEN [num |-> 0, den |-> 1]
        ELSE [num |-> (hist[0] - count) * (hist[0] - count)
                      + (hist[1] - count) * (hist[1] - count),
              den |-> count]

\* CalculateChiSquare(img): the sum over the two LSB bins of
\* (observed - expected)^2 / expected with expected = count / 2, that is of
\* (2*observed - count)^2 / (2*count).
CalculateChiSquare(m) ==
    LET count == NPix(m)
        hist == [b \in {0, 1} |->
                    Cardinality({i \in 0..count-1 : Shr8(m.R[i]) % 2 = b})]
    IN  IF count = 0 THEN [num |-> 0, den |-> 1]
        ELSE [num |-> (2 * hist[0] - count) * (2 * hist[0] - count)
                      + (2 * hist[1] - count) * (2 * hist[1] - count),
              den |-> 2 * count]

\* calculateHistogram counting the Green channel.
calculateHistogramGreen(m) ==
    Array([v \in Byte |->
            Cardinality({i \in 0..NPix(m)-1 : Shr8(m.G[i]) = v})])

\* calculateHistogram(img): hist[r >> 8]++ for every pixel ("Use R channel
\* for histogram"); the pixel count it also returns is NPix.
calculateHistogram(m) ==
    Array([v \in Byte |->
            Cardinality({i \in 0..NPix(m)-1 : Shr8(m.R[i]) = v})])

\* CalculateHistogramDistance from the two histograms: 0 for an empty
\* image, +Inf when the Bhattacharyya coefficient is 0 (no bin filled in
\* both), else -ln(bc).  For two probability distributions bc = 1, and
\* -ln(bc) = 0, exactly when they are equal; otherwise 0 < bc < 1.
HistogramDistanceOf(h1, n1, h2, n2) ==
    IF n1 = 0 \/ n2 = 0 THEN "zero"
    ELSE IF \A v \in Byte : h1[v] * h2[v] = 0 THEN "inf"
    ELSE IF \A v \in Byte : h1[v] * n2 = h2[v] * n1 THEN "zero"
    ELSE "positive"

CalculateHistogramDistance(img1, img2) ==
    HistogramDistanceOf(calculateHistogram(img1), NPix(img1),
                        calculateHistogram(img2), NPix(img2))

\* CalculatePSNR counting one sample per pixel (count++) while summing the
\* three channels.
CalculatePSNRCountPixels(original, stg) ==
    IF original.w # stg.w \/ original.h # stg.h
    THEN [kind |-> "mismatch", sum |-> 0, count |-> 0]
    ELSE LET sq(a, b) == (Shr8(a) - Shr8(b)) * (Shr8(a) - Shr8(b))
             diffs == Array([i \in 0..NPix(original)-1 |->
                        sq(original.R[i], stg.R[i]) + sq(original.G[i], stg.G[i])
                        + sq(original.B[i], stg.B[i])])
             sum == SumRange(diffs, 0, NPix(original) - 1)
         IN  [kind |-> IF sum = 0 THEN "inf" ELSE "finite",
              sum |-> sum, count |-> NPix(original)]

\* CalculatePSNR(original, stego): mse = sum / count over the R, G and B
\* samples; "mismatch" (returns 0) when the bounds differ, "inf" when
\* mse = 0, else 10 * log10(255^2 / mse).
CalculatePSNR(original, stg) ==
    IF original.w # stg.w \/ original.h # stg.h
    THEN [kind |-> "mismatch", sum |-> 0, count |-> 0]
    ELSE LET sq(a, b) == (Shr8(a) - Shr8(b)) * (Shr8(a) - Shr8(b))
             diffs == Array([i \in 0..NPix(original)-1 |->
                        sq(original.R[i], stg.R[i]) + sq(original.G[i], stg.G[i])
                        + sq(original.B[i], stg.B[i])])
             sum == SumRange(diffs, 0, NPix(original) - 1)
         IN  [kind |-> IF sum = 0 THEN "inf" ELSE "finite",
              sum |-> sum, count |-> 3 * NPix(original)]

windowSize == 8

\* The window origins of CalculateSSIM: x = 0, 8, 16, ... while
\* x < Max.X - windowSize, and the same for y.
SSIMWindows(m) ==
    {<<x, y>> \in (0..m.w) \X (0..m.h) :
        /\ x % windowSize = 0 /\ x < m.w - windowSize
        /\ y % windowSize = 0 /\ y < m.h - windowSize}

\* How many times the innermost loop body runs on pixel i.
SSIMVisits(m) ==
    Array([i \in 0..NPix(m)-1 |->
            Cardinality({o \in SSIMWindows(m) :
                /\ o[1] <= i % m.w /\ i % m.w < o[1] + windowSize
                /\ o[2] <= i \div m.w /\ i \div m.w < o[2] + windowSize})])

\* CalculateSSIM(original, stego): the five sums over the visited pixels and
\* the divisor n = Dx * Dy; accumulated counts the runs of the loop body.
CalculateSSIM(original, stg) ==
    LET visits == SSIMVisits(original)
        last == NPix(original) - 1
        v1(i) == Shr8(original.R[i])
        v2(i) == Shr8(stg.R[i])
        sumOver(t(_)) == SumRange(Array([i \in 0..last |-> visits[i] * t(i)]),
                                  0, last)
        one(i) == 1
        o1(i) == v1(i)
        o2(i) == v2(i)
        o11(i) == v1(i) * v1(i)
        o22(i) == v2(i) * v2(i)
        o12(i) == v1(i) * v2(i)
    IN  [sumOriginal |-> sumOver(o1),
         sumStego |-> sumOver(o2),
         sumOriginalSquare |-> sumOver(o11),
         sumStegoSquare |-> sumOver(o22),
         sumOriginalStego |-> sumOver(o12),
         accumulated |-> sumOver(one),
         n |-> original.w * original.h]

\* AnalyzeSecurity(original, stego)
AnalyzeSecurity(original, stg) ==
    [ChiSquareValue |-> CalculateChiSquare(stg),
     HistogramDistance |-> CalculateHistogramDistance(original, stg),
     PSNRValue |-> CalculatePSNR(original, stg),
     SSIMValue |-> CalculateSSIM(original, stg)]

(***************************************************************************)
(* The metrics called on their own, on pairs of rasters of equal size      *)
(* (an original and an image to compare with it).                          *)
(***************************************************************************)
MetricDims == {<<8, 8>>, <<9, 9>>, <<16, 8>>, <<16, 16>>, <<24, 16>>}
MetricRedPatterns == RedPatterns \cup {"checker"}

InitMetrics ==
    /\ unitIn = [pixel |-> 0, bit |-> 0, draw |-> "add"]
    /\ calls = <<>>
    /\ chain = <<>>
    /\ direct = <<>>
    /\ \E d \in MetricDims, g \in GreenPatterns, r \in MetricRedPatterns :
          Idle(PatternFile(d, g, r, "opaque"), <<>>, "ascending", "none")

CallAnalyzeSecurity ==
    /\ phase = "idle"
    /\ phase' = "analysed"
    /\ \E g \in GreenPatterns, r \in MetricRedPatterns :
          LET original == getImageAsRGBA(carrierFile)
              stg == getImageAsRGBA(
                        PatternFile(<<carrierFile.w, carrierFile.h>>, g, r,
                                    "opaque"))
          IN  /\ img' = original
              /\ stego' = stg
              /\ metrics' = AnalyzeSecurity(original, stg)
    /\ UNCHANGED <<tie, fault, carrierFile, payload, coin, encOrder, encErr,
                   encOut, decImg, decOrder, decLen, decErr, decOut, unitIn,
                   unitOut, costMap, calls,
                   chain, direct>>

NextMetrics == CallAnalyzeSecurity

SpecMetrics == InitMetrics /\ [][NextMetrics]_vars

(***************************************************************************)
(* Properties.                                                             *)
(***************************************************************************)
EncodeOk == phase \in {"encoded", "decoded"} /\ encOut # NoRaster
EncodeReturned == phase = "encoded" \/ (phase = "decoded" /\ img # NoRaster)
DecodedStego == phase = "decoded" /\ encOut # NoRaster
Abs(a) == IF a < 0 THEN -a ELSE a

\* C1: round trip.  Whenever AdvancedEncode has succeeded on a carrier and a
\* payload of any length, AdvancedDecode of its output succeeds and writes
\* exactly the payload.
C1_RoundTrip == DecodedStego => decErr = "none" /\ decOut = payload

\* The round trip of a non-empty payload through a fully opaque carrier.
RoundTripOpaqueNonEmpty ==
    (DecodedStego /\ Len(payload) >= 1 /\ \A i \in DOMAIN img.A : img.A[i] = 255)
        => decErr = "none" /\ decOut = payload

\* 8*(8+L) > n in unbounded arithmetic, L a uint64 and 64 <= n < 2^24:
\* L > n div 8 - 8.
TrulyOversized(len, n) == U64GtInt(len, (n \div 8) - 8)

\* C2: header validation.  Whenever the decoder has read a length L that is
\* zero or for which 8*(8+L) exceeds the pixel count, it returns the
\* corrupt-header error (and goes no further).
C2_HeaderValidation ==
    (phase = "decoded" /\ decLen # <<>>
        /\ (U64IsZero(decLen) \/ TrulyOversized(decLen, NPix(decImg))))
        => decErr = "CorruptHeader"

\* C3: channel preservation.  After a successful encode the Green, Blue and
\* Alpha values of every pixel of the stego raster are the carrier's.
C3_ChannelPreservation ==
    EncodeOk => /\ stego.w = img.w /\ stego.h = img.h
                /\ stego.G = img.G
                /\ stego.B = img.B
                /\ stego.A = img.A
C3_Witness == EncodeOk /\ stego.R # img.R /\ stego.G = img.G

\* C4: bounded perturbation.  After a successful encode every Red value of
\* the stego raster is a byte within 1 of the carrier's.
C4_BoundedPerturbation ==
    EncodeOk => \A i \in 0..NPix(img)-1 :
                    /\ stego.R[i] \in Byte
                    /\ Abs(stego.R[i] - img.R[i]) <= 1
C4_Witness ==
    /\ EncodeOk
    /\ \E i \in 0..NPix(img)-1 : img.R[i] = 255 /\ stego.R[i] = 254
    /\ \E i \in 0..NPix(img)-1 : img.R[i] = 255 /\ stego.R[i] = 255

\* C5: capacity boundary.  With carrier and payload read, encode fails, and
\* then with the capacity error, exactly when 8*(8+L) > W*H; so on W*H >= 64
\* pixels a payload of W*H div 8 - 8 bytes is accepted and one more byte is
\* refused.
C5_CapacityBoundary ==
    (EncodeReturned /\ fault = "none") =>
        LET n == NPix(img)
            L == Len(payload)
        IN  /\ (encErr = "CapacityExceeded") <=> (8 * (8 + L) > n)
            /\ encErr \in {"none", "CapacityExceeded"}
            /\ (encErr = "none") <=> (encOut # NoRaster)
            /\ (n >= 64 /\ L = (n \div 8) - 8) => encErr = "none"
            /\ (n >= 64 /\ L = (n \div 8) - 7) => encErr = "CapacityExceeded"
C5_Witness ==
    /\ EncodeOk /\ encErr = "none"
    /\ NPix(img) % 8 # 0
    /\ Len(payload) = (NPix(img) \div 8) - 8

\* C6: ordering agreement.  When the raster the decoder loads has the
\* dimensions and the Green channel of the raster the encoder loaded, the
\* two position orders are the same array, whatever the other channels are.
C6_OrderingAgreement ==
    (DecodedStego /\ decImg.w = img.w /\ decImg.h = img.h /\ decImg.G = img.G)
        => decOrder = encOrder
C6_Witness ==
    /\ DecodedStego /\ decImg.G = img.G /\ decImg.R # img.R
    /\ decOrder = encOrder
    /\ \E i \in 0..NPix(img)-1 : img.G[i] # img.G[0]

\* Positions of equal cost appear in ascending raster index in order, the
\* costs being those of raster m.
TiesAscending(order, m) ==
    LET costs == CalculateCosts(m, costChannel)
    IN  \A a, b \in 1..Len(order) :
            (a < b /\ costs[order[a]] = costs[order[b]]) => order[a] < order[b]

\* C7: tie-break.  In the position order of the encoder and of the decoder,
\* of two positions of equal cost the one of smaller raster index comes
\* first.
C7_TieBreak ==
    /\ EncodeOk => TiesAscending(encOrder, img)
    /\ phase = "decoded" /\ decImg # NoRaster => TiesAscending(decOrder, decImg)

\* C8: LSB-matching post-condition.  For every pixel value, bit and random
\* draw the returned value is a byte with the bit as its LSB, within 1 of
\* the pixel; the pixel itself when its LSB matched, 1 for a mismatching 0
\* and 254 for a mismatching 255.
C8_LSBMatching ==
    phase = "returned" =>
        LET p == unitIn.pixel
            bit == unitIn.bit
            q == unitOut
        IN  /\ q \in Byte
            /\ q % 2 = bit
            /\ Abs(q - p) <= 1
            /\ (p % 2 = bit) => q = p
            /\ (p = 0 /\ bit = 1) => q = 1
            /\ (p = 255 /\ bit = 0) => q = 254
C8_Witness ==
    /\ phase = "returned"
    /\ unitIn = [pixel |-> 0, bit |-> 1, draw |-> "sub"]
    /\ unitOut = 1

\* Bit k of the frame uint64_be(L) || D, most significant bit of each byte
\* first, for L < 2^31.
FrameBit(D, k) ==
    IF k < 64
    THEN (IF 63 - k > 30 THEN 0 ELSE (Len(D) \div (2 ^ (63 - k))) % 2)
    ELSE (D[((k - 64) \div 8) + 1] \div (2 ^ (7 - (k % 8)))) % 2

\* C9: wire format.  After a successful encode of payload D of length L, the
\* LSB of the stego Red value at the k-th position of the order is bit k of
\* the frame, for every k below 8*(8+L).
C9_WireFormat ==
    EncodeOk => \A k \in 0..(8 * (8 + Len(payload)) - 1) :
                    stego.R[encOrder[k + 1]] % 2 = FrameBit(payload, k)
C9_Witness ==
    /\ EncodeOk /\ Len(payload) = 2
    /\ \E k \in 64..79 : /\ stego.R[encOrder[k + 1]] # img.R[encOrder[k + 1]]
                         /\ FrameBit(payload, k) = 1
    /\ \E k \in 64..79 : FrameBit(payload, k) = 0

ErrorKinds == {"CarrierDecodeError", "PayloadReadError", "CapacityExceeded",
               "TooSmall", "CorruptHeader"}

\* C10: no partial output.  A call that has returned an error has written
\* nothing to its result writer.
C10_NoPartialOutput ==
    /\ (EncodeReturned /\ encErr \in ErrorKinds) => encOut = NoRaster
    /\ (phase = "encoded" /\ fault = "badCarrier") =>
            encErr = "CarrierDecodeError" /\ encOut = NoRaster
    /\ (phase = "decoded" /\ decErr \in ErrorKinds) => decOut = <<>>
C10_Witness ==
    /\ phase = "encoded" /\ encErr = "CapacityExceeded" /\ encOut = NoRaster
    /\ NPix(img) >= 64

(***************************************************************************)
(* Properties of the cost map (SpecCost).                                  *)
(***************************************************************************)
\* The raster is the step edge of TestCostMapCalculation: Green 0 left of
\* column w \div 2, 255 from it on.
IsStepEdge(m) ==
    \A i \in 0..NPix(m)-1 : m.G[i] = GreenAt("step", i % m.w, i \div m.w, m.w)

Get(costs, m, x, y) == costs[y * m.w + x]

EdgeCheaperThanFlat(m) ==
    \A y \in 1..(m.h - 2) :
        \A e \in {m.w \div 2, m.w \div 2 - 1} :
            \A f \in {m.w \div 4, (3 * m.w) \div 4} :
                Get(costMap, m, e, y) < Get(costMap, m, f, y)

\* C11 as stated: on a step-edge raster of any width W (wide enough for
\* the column W/2 - 1 to exist), on every interior row the costs at x = W/2
\* and x = W/2 - 1 are strictly lower than the costs at x = W/4 and
\* x = 3W/4.
C11_StepEdgeAnyWidth ==
    (phase = "costed" /\ IsStepEdge(img) /\ img.w >= 2)
        => EdgeCheaperThanFlat(img)

\* C11 amended: the same for every width W >= 6 (for W <= 5 the column W/4
\* is the column W/2 - 1 itself or touches the edge, or the image has no
\* interior column left of the edge).
C11_StepEdge ==
    (phase = "costed" /\ IsStepEdge(img) /\ img.w >= 6)
        => EdgeCheaperThanFlat(img)

\* The 10-wide step edge of the test, costed, with an interior row.
C11_Witness ==
    /\ phase = "costed"
    /\ IsStepEdge(img)
    /\ img.w = 10
    /\ img.h = 5
    /\ Get(costMap, img, 4, 2) < Get(costMap, img, 2, 2)

\* C12: CalculateCosts returns exactly W*H costs; every border pixel
\* carries the sentinel (math.MaxFloat64); every interior pixel carries a
\* finite positive cost strictly below the sentinel.
C12_BorderSentinel ==
    phase = "costed" =>
        /\ DOMAIN costMap = 0..(img.w * img.h - 1)
        /\ \A x \in 0..(img.w - 1), y \in 0..(img.h - 1) :
              IF x = 0 \/ y = 0 \/ x = img.w - 1 \/ y = img.h - 1
              THEN Get(costMap, img, x, y) = MaxFloat64
              ELSE /\ Get(costMap, img, x, y) > 0
                   /\ Get(costMap, img, x, y) < MaxFloat64

\* A costed raster with interior pixels of zero and of non-zero gradient.
C12_Witness ==
    /\ phase = "costed"
    /\ img.w = 5
    /\ img.h = 4
    /\ Get(costMap, img, 0, 1) = MaxFloat64
    /\ Get(costMap, img, 3, 1) = MaxMagSq + 1
    /\ Get(costMap, img, 2, 1) < MaxMagSq + 1

(***************************************************************************)
(* Further properties of encode and decode (Spec).                         *)
(***************************************************************************)
\* C13: when every rand.Read of an encode fails, a pixel p whose LSB differs
\* from the bit becomes p + 1 for p < 255 and 254 for p = 255: its LSB is
\* the bit, it moved by exactly 1, a pixel whose LSB matched is kept; and
\* the encode, with carrier and payload read and the frame within
\* capacity, returns without error.
C13_RngFailureFallback ==
    (/\ EncodeReturned
     /\ coin.kind = "fail"
     /\ fault = "none"
     /\ ~CapacityExceeded(payload, NPix(img)))
    => /\ encErr = "none"
       /\ encOut # NoRaster
       /\ \A k \in 0..(8 * (8 + Len(payload)) - 1) :
             LET p == img.R[encOrder[k + 1]]
                 q == stego.R[encOrder[k + 1]]
                 bit == FrameBit(payload, k)
             IN  /\ q % 2 = bit
                 /\ p % 2 = bit => q = p
                 /\ p % 2 # bit => /\ q = (IF p = 255 THEN 254 ELSE p + 1)
                                   /\ Abs(q - p) = 1

\* An encode whose random source fails, on a carrier with Red 255
\* everywhere: a pixel was stepped down to 254 and the encode succeeded.
C13_Witness ==
    /\ EncodeOk
    /\ coin.kind = "fail"
    /\ encErr = "none"
    /\ Len(payload) = 1
    /\ \E i \in 0..NPix(img)-1 : img.R[i] = 255 /\ stego.R[i] = 254

\* order holds every position 0..n-1 exactly once, by non-decreasing cost.
IsSortedPermutation(order, costs, n) ==
    /\ Len(order) = n
    /\ {order[k] : k \in 1..n} = 0..(n - 1)
    /\ \A k \in 1..(n - 1) : costs[order[k]] <= costs[order[k + 1]]

\* C15: the position order built in GetOptimalChanges (encoder) and in
\* AdvancedDecode is a sorted permutation of 0..W*H-1: every pixel index
\* exactly once, the costs non-decreasing along it.  Each order is looked
\* at in the state its call returns in; no later step changes it or the
\* raster it was built from.
C15_SortedPermutation ==
    /\ (phase = "encoded" /\ encOut # NoRaster) =>
          IsSortedPermutation(encOrder, CalculateCosts(img, costChannel),
                              NPix(img))
    /\ (phase = "decoded" /\ decImg # NoRaster) =>
          IsSortedPermutation(decOrder, CalculateCosts(decImg, costChannel),
                              NPix(decImg))

\* Encoder and decoder have both sorted a raster whose costs are not all
\* equal.
C15_Witness ==
    /\ DecodedStego
    /\ Len(encOrder) = NPix(img)
    /\ Len(decOrder) = NPix(decImg)
    /\ LET costs == CalculateCosts(decImg, costChannel)
       IN  \E k \in 1..(Len(decOrder) - 1) :
               /\ costs[decOrder[k]] < costs[decOrder[k + 1]]
               /\ costs[decOrder[k + 1]] < MaxFloat64

IsBorderPosition(m, i) == IsBorder(m.w, m.h, i % m.w, i \div m.w)

\* C16: borders are used last.  After a successful encode of a frame of
\* 8*(8+L) bits, a border pixel is among the selected positions only if
\* 8*(8+L) > (W-2)*(H-2); when the frame fits the interior, every border
\* pixel of the stego image equals the carrier's.
C16_BordersLast ==
    EncodeOk =>
        LET n == 8 * (8 + Len(payload))
            interior == (img.w - 2) * (img.h - 2)
        IN  /\ (\E k \in 1..n : IsBorderPosition(img, encOrder[k]))
                  => n > interior
            /\ n <= interior =>
                  \A i \in 0..NPix(img)-1 :
                      IsBorderPosition(img, i) =>
                          /\ stego.R[i] = img.R[i]
                          /\ stego.G[i] = img.G[i]
                          /\ stego.B[i] = img.B[i]
                          /\ stego.A[i] = img.A[i]

\* A one-byte payload embedded in a carrier whose interior holds the whole
\* frame: Red changed, and only in the interior.
C16_Witness ==
    /\ EncodeOk
    /\ Len(payload) = 1
    /\ 8 * (8 + Len(payload)) <= (img.w - 2) * (img.h - 2)
    /\ stego.R # img.R
    /\ \A i \in 0..NPix(img)-1 :
          IsBorderPosition(img, i) => stego.R[i] = img.R[i]

(***************************************************************************)
(* Properties of the metrics (SpecMetrics).                                *)
(***************************************************************************)
Analysed == phase = "analysed"

C18_SSIMCoverage ==
    (Analysed /\ img.w % windowSize = 0 /\ img.h % windowSize = 0) =>
        /\ \A i \in 0..NPix(img)-1 : SSIMVisits(img)[i] = 1
        /\ metrics.SSIMValue.accumulated = metrics.SSIMValue.n

\* C20: for an image of n > 0 pixels, n0 of them with Red LSB 0 and n1 with
\* Red LSB 1, CalculateChiSquare returns (n0 - n1)^2 / n, which is 0
\* exactly when n0 = n1.
C20_ChiSquare ==
    (Analysed /\ NPix(stego) > 0) =>
        LET n == NPix(stego)
            n0 == Cardinality({i \in 0..n-1 : stego.R[i] % 2 = 0})
            n1 == Cardinality({i \in 0..n-1 : stego.R[i] % 2 = 1})
            chi == metrics.ChiSquareValue
        IN  /\ chi.den > 0
            /\ chi.num * n = (n0 - n1) * (n0 - n1) * chi.den
            /\ chi.num = 0 <=> n0 = n1

\* An image with as many Red LSBs 0 as 1 (chi-square 0) has been analysed.
C20_Witness ==
    /\ Analysed
    /\ metrics.ChiSquareValue.num = 0
    /\ \E i \in 0..NPix(stego)-1 : stego.R[i] % 2 = 1

EncodeAlone(file, data, t, c) ==
    LET m == getImageAsRGBA(file)
        capacity == NPix(m)
    IN  IF CapacityExceeded(data, capacity)
        THEN [err |-> "CapacityExceeded", order |-> <<>>, red |-> <<>>]
        ELSE LET order == SortByCost(CalculateCosts(m, costChannel), capacity, t)
             IN  [err |-> "none", order |-> order,
                  red |-> GetOptimalChanges(m.R, capacity, FullData(data),
                                            order, c)]

\* AdvancedDecode run alone on file, with tie order t.
DecodeAlone(file, t) ==
    LET m == getImageAsRGBA(file)
        capacity == NPix(m)
    IN  DecodeResult(m.R,
                     SortByCost(CalculateCosts(m, costChannel), capacity, t),
                     capacity)

\* C14: whatever the interleaving of two calls on inputs of their own, a
\* call that has returned has the result it has when run alone: the same
\* error or success, for an encode the same stego LSBs at the embedded
\* positions (and the same file apart from the coin-dependent Red values),
\* for a decode the same bytes.
C14_ConcurrentIsolation ==
    \A id \in CallIds :
        calls[id].pc = "done" =>
            IF calls[id].op = "encode"
            THEN LET alone == EncodeAlone(calls[id].file, calls[id].data, tie,
                                          [kind |-> "add", period |-> 1])
                     bits == 8 * (8 + Len(calls[id].data))
                 IN  /\ calls[id].err = alone.err
                     /\ alone.err = "none" =>
                           /\ calls[id].order = alone.order
                           /\ \A k \in 1..bits :
                                 calls[id].pixels[alone.order[k]] % 2
                                     = alone.red[alone.order[k]] % 2
                           /\ \A k \in (bits + 1)..Len(alone.order) :
                                 calls[id].pixels[alone.order[k]]
                                     = alone.red[alone.order[k]]
            ELSE LET alone == DecodeAlone(calls[id].file, tie)
                 IN  /\ calls[id].err = alone.err
                     /\ calls[id].out = alone.out

\* Two calls on different carriers have both returned: an encode that
\* embedded a payload and a decode that extracted one.
C14_Witness ==
    /\ calls[1].pc = "done" /\ calls[2].pc = "done"
    /\ calls[1].op = "encode" /\ calls[1].err = "none"
    /\ Len(calls[1].data) = 1
    /\ calls[2].op = "decode" /\ calls[2].err = "none"
    /\ calls[1].img.G # calls[2].img.G

(***************************************************************************)
(* Frame of the encoder's writes (Spec).                                   *)
(***************************************************************************)
\* The positions the encoder selected for its frame of 8*(8+L) bits.
SelectedPositions ==
    {encOrder[k] : k \in 1..(8 * (headerSize + Len(payload)))}

\* The positions where carrier raster and stego raster differ in Red.
ChangedPositions == {i \in 0..(NPix(img) - 1) : stego.R[i] # img.R[i]}

\* C21: after a successful encode of a frame of N = 8*(8+L) bits, Red at
\* every position outside PositionOrder[0..N-1] is the carrier's; the N
\* selected positions are pairwise different, so each is written once, and
\* what is written is LSBMatchingEmbed of the carrier's own value there;
\* hence at most N pixels differ between carrier and stego.
C21_RedFrame ==
    EncodeOk =>
        LET N == 8 * (headerSize + Len(payload))
            selected == SelectedPositions
            changed == ChangedPositions
        IN  /\ changed \subseteq selected
            /\ Cardinality(selected) = N
            /\ \A k \in 1..N :
                  stego.R[encOrder[k]]
                      = LSBMatchingEmbed(img.R[encOrder[k]],
                                         FrameBit(payload, k - 1),
                                         CoinAt(coin, k - 1))
            /\ Cardinality(changed) <= N

\* A successful encode of a two-byte payload that changed some pixels and
\* left unselected pixels with an odd Red value as they were.
C21_Witness ==
    /\ EncodeOk
    /\ Len(payload) = 2
    /\ LET selected == SelectedPositions
       IN  /\ Cardinality(ChangedPositions) >= 8
           /\ \E i \in 0..(NPix(img) - 1) :
                 i \notin selected /\ img.R[i] % 2 = 1

(***************************************************************************)
(* Properties of successive encodes (SpecChain).                           *)
(***************************************************************************)
\* The encode of this round succeeded on the output of an earlier encode.
ReEncoded == EncodeOk /\ Len(chain.history) >= 1

\* Every payload of the chain so far, the current one included, is
\* non-empty.
AllNonEmpty ==
    /\ Len(payload) >= 1
    /\ \A k \in 1..Len(chain.history) : Len(chain.history[k].data) >= 1

IsOpaque(file) == \A i \in DOMAIN file.A : file.A[i] = 255

\* C22: last payload wins.  After successful encodes of non-empty payloads
\* D1, ..., Dn, each into the image the one before it wrote, decoding the
\* last image succeeds and returns Dn, and the Green channel of the last
\* image is that of the first carrier.
C22_LastPayloadWins ==
    (DecodedStego /\ AllNonEmpty)
        => /\ decErr = "none"
           /\ decOut = payload
           /\ encOut.G = chain.first.G

\* The same for carriers without transparency.
LastPayloadWinsOpaque ==
    (DecodedStego /\ AllNonEmpty /\ IsOpaque(chain.first))
        => /\ decErr = "none"
           /\ decOut = payload
           /\ encOut.G = chain.first.G

\* C23: encoding D into the image an encode of D wrote gives a raster
\* equal in every channel to the raster that encode produced, whatever
\* the coins of either call.
C23_ReEncodeIdempotent ==
    (ReEncoded /\ payload = chain.history[Len(chain.history)].data)
        => stego = chain.history[Len(chain.history)].stego

\* The same for carriers without transparency.
ReEncodeIdempotentOpaque ==
    (/\ ReEncoded
     /\ payload = chain.history[Len(chain.history)].data
     /\ IsOpaque(chain.first))
        => stego = chain.history[Len(chain.history)].stego

\* The run of AdvancedEncode on the same carrier and payload with the coin
\* outcomes c2, compared with the run that produced this state: the same
\* set of modified positions, the same LSB at every pixel, a modified Red
\* value one away from the carrier's, and the same decoded bytes.
SameButForCoin(c2) ==
    LET other == EncodeAlone(carrierFile, payload, tie, c2)
        otherOut == pngEncode(ResultImage(img, other.red))
    IN  /\ other.err = "none"
        /\ {i \in 0..(NPix(img) - 1) : other.red[i] # img.R[i]}
               = ChangedPositions
        /\ \A i \in 0..(NPix(img) - 1) :
              other.red[i] % 2 = stego.R[i] % 2
        /\ \A i \in ChangedPositions :
              /\ Abs(stego.R[i] - img.R[i]) = 1
              /\ Abs(other.red[i] - img.R[i]) = 1
        /\ DecodeAlone(otherOut, tie).out = DecodeAlone(encOut, tie).out

\* C24: coin independence.  Two successful runs of AdvancedEncode on the
\* same carrier and payload that differ only in the coin outcomes (a
\* failing random source included) modify the same positions, give every
\* pixel the same LSB and decode to the same bytes.
C24_CoinIndependence ==
    (phase = "encoded" /\ encOut # NoRaster)
        => \A c2 \in ChainCoins : SameButForCoin(c2)

\* The same for carriers without transparency.
CoinIndependenceOpaque ==
    (phase = "encoded" /\ encOut # NoRaster /\ IsOpaque(chain.first))
        => \A c2 \in ChainCoins : SameButForCoin(c2)

(***************************************************************************)
(* GetOptimalChanges on its own (SpecDirect).                              *)
(***************************************************************************)
\* C25: when 8*len(message) exceeds len(img), GetOptimalChanges returns a
\* slice equal element for element to img, with no bit embedded (it has no
\* error result to signal anything with); and whatever the sizes, the
\* argument slice holds after the call what it held before.
C25_OverCapacity ==
    direct.pc = "returned" =>
        /\ 8 * Len(direct.message) > SliceLen(direct.before)
              => direct.result = direct.before
        /\ direct.img = direct.before

\* A call with a message too long for the slice has returned.
C25_Witness ==
    /\ direct.pc = "returned"
    /\ Len(direct.message) = 1
    /\ SliceLen(direct.before) = 4
    /\ direct.result = direct.before
    /\ direct.img = direct.before

====
